---- MODULE Spec2Model ----
(***************************************************************************)
(* Device lifecycle of the launcher's legacy device actions                *)
(* (src/src/legacy/app/actions/deviceActions.js): the hotplug watcher      *)
(* (startWatchingDevices / stopWatchingDevices), the setup orchestrator    *)
(* (selectAndSetupDevice) and the user-input handshake                     *)
(* (getDeviceSetupUserInput / deviceSetupInputReceived).                   *)
(*                                                                         *)
(* Granularity.  JavaScript runs every handler to its next `await` without *)
(* interruption, so one action is one synchronous stretch of code: a       *)
(* command up to its first await, or the continuation that runs when an    *)
(* awaited promise settles.  The continuation of updateDeviceList and the  *)
(* resumption of `await updateDeviceList()` in startWatchingDevices run in *)
(* the same microtask drain, with nothing of this module in between; they  *)
(* are one action.                                                         *)
(*                                                                         *)
(* External collaborators are modelled at their interface: the device      *)
(* library (enumerate, startHotplugEvents, stopHotplugEvents), the         *)
(* application's configuration (releaseCurrentDevice, deviceSetup),        *)
(* prepareDevice, and the redux store that receives the dispatched         *)
(* actions.  dispatch(stopWatchingDevices()) hands the store the value     *)
(* `undefined` that stopWatchingDevices returns; the store is taken to     *)
(* ignore it (no notification).                                            *)
(***************************************************************************)
EXTENDS Integers, Sequences, FiniteSets, TLC

\* Serial numbers of the devices that can be attached.
Serials == {"A", "B"}

\* Bounds of the model.
MaxStarts == 2      \* hotplug tasks started, plus starts still enumerating
MaxCallbacks == 2   \* hotplug-callback enumerations in flight at once
MaxSetups == 2      \* selectAndSetupDevice calls that can be in progress at once

\* ---------------------------------------------------------------- values

\* JavaScript values that reach the handshake, written as strings.
JsUndefined == "undefined"
JsFalse == "bool:false"
JsTrue == "bool:true"
JsEmptyString == "str:"

\* The inputs provideSetupInput is given: a boolean, a chosen string.
JsValues == {JsFalse, JsTrue, "str:DFU"}

\* ToBoolean: undefined, false and "" are falsy.
Truthy(v) == v \notin {JsUndefined, JsFalse, JsEmptyString}

\* !!v
NotNot(v) == IF Truthy(v) THEN JsTrue ELSE JsFalse

\* The `choices` argument of a prompt: absent, or an array of strings.
NoChoices == [defined |-> FALSE, items |-> <<>>]
ChoiceArgs == {NoChoices,
               [defined |-> TRUE, items |-> <<"str:DFU", "str:Normal">>]}

\* selectedSerialNumber of the store before any selection.
Null == "null"

\* hotplugTaskId before the first assignment (`let hotplugTaskId;`).
NoTask == 0

\* What a call of getAppConfig() (line 253) can return: whether deviceSetup
\* and releaseCurrentDevice are there.
Configs == [deviceSetup : BOOLEAN, releaseCurrentDevice : BOOLEAN]

\* config.deviceSetup.allowCustomDevice: absent, false or true.
AllowCustomDeviceValues == {JsUndefined, JsFalse, JsTrue}

VARIABLES
    hotplugTaskId,       \* let hotplugTaskId
    deviceSetupCallback, \* let deviceSetupCallback
    subscriptions,       \* device library: ids of the active hotplug tasks
    startsInFlight,      \* startWatchingDevices calls awaiting enumerate
    callbacksInFlight,   \* hotplug-callback updateDeviceList calls awaiting enumerate
    selectedSerialNumber,\* store: getState().device.selectedSerialNumber
    sessions,            \* selectAndSetupDevice calls in progress: how many
                         \* stand where, with which device
    trace,               \* what the last step did, in order: dispatches,
                         \* logger.error calls, calls to collaborators
    last                 \* the last step: which handler ran, on what

vars == <<hotplugTaskId, deviceSetupCallback,
          subscriptions, startsInFlight, callbacksInFlight,
          selectedSerialNumber, sessions, trace, last>>

\* ------------------------------------------------------- action creators

deviceSelectedAction(device) == [type |-> "DEVICE_SELECTED", device |-> device]

deviceSetupErrorAction(device, error) ==
    [type |-> "DEVICE_SETUP_ERROR", device |-> device, error |-> error]

deviceSetupCompleteAction(device) ==
    [type |-> "DEVICE_SETUP_COMPLETE", device |-> device]

devicesDetectedAction(devices) == [type |-> "DEVICES_DETECTED", devices |-> devices]

deviceSetupInputRequiredAction(choices) ==
    [type |-> "DEVICE_SETUP_INPUT_REQUIRED", choices |-> choices]

deviceSetupInputReceivedAction(input) ==
    [type |-> "DEVICE_SETUP_INPUT_RECEIVED", input |-> input]

deselectDevice == [type |-> "DEVICE_DESELECTED"]

\* A device as selectAndSetupDevice receives it, and as prepareDevice returns it.
Device(serial) == [serialNumber |-> serial, prepared |-> FALSE]

\* A slip at line 278: setup-complete carries `device`, not `preparedDevice`.
PreparedDevice_Original(device) == device

PreparedDevice(device) == [device EXCEPT !.prepared = TRUE]

\* ------------------------------------------------------------- the store

\* The device reducer on the actions that touch the selection.
Reduce(selected, action) ==
    IF action.type = "DEVICE_SELECTED" THEN action.device.serialNumber
    ELSE IF action.type = "DEVICE_DESELECTED" THEN Null
    ELSE selected

RECURSIVE ReduceAll(_, _)
ReduceAll(selected, actions) ==
    IF actions = <<>> THEN selected
    ELSE ReduceAll(Reduce(selected, Head(actions)), Tail(actions))

\* ------------------------------------------------- the trace of one step

Dispatch(action) == [kind |-> "dispatch", action |-> action]
Call(fn) == [kind |-> "call", fn |-> fn]
LogError(message) == [kind |-> "log", message |-> message]

RECURSIVE DispatchAll(_)
DispatchAll(actions) ==
    IF actions = <<>> THEN <<>>
    ELSE <<Dispatch(Head(actions))>> \o DispatchAll(Tail(actions))

IsDispatch(e) == e.kind = "dispatch"
IsLog(e) == e.kind = "log"
IsCall(e) == e.kind = "call"

\* The actions a trace dispatched, in order.
Actions(t) ==
    LET d == SelectSeq(t, IsDispatch) IN [k \in 1..Len(d) |-> d[k].action]

\* Positions in a trace of the dispatches of a type, and of the calls of fn.
Dispatched(t, type) ==
    {k \in 1..Len(t) : IsDispatch(t[k]) /\ t[k].action.type = type}
Called(t, fn) == {k \in 1..Len(t) : IsCall(t[k]) /\ t[k].fn = fn}
Logged(t) == {k \in 1..Len(t) : IsLog(t[k])}

\* ------------------------------------------------------ the device library

\* nrfDeviceLib.stopHotplugEvents(id) on the library's active tasks.
stopHotplugEvents(active, id) == active \ {id}

\* The library may throw when the id is undefined or names no active task.
StopCanThrow(active, id) == id \notin active

\* The id nrfDeviceLib.startHotplugEvents returns: one it never gave before.
\* hotplugTaskId always holds the last id handed out (line 190 is the only
\* place that asks for one), so the next one is fresh.
NewTaskId == hotplugTaskId + 1

\* ------------------------------------------------------------- the watcher

\* A slip in updateDeviceList: the deselection is dispatched whatever the list.
updateDeviceList_AlwaysDeselects(selected, devices) ==
    <<deselectDevice, devicesDetectedAction(devices)>>

\* A slip in updateDeviceList: the list is dispatched before the deselection.
updateDeviceList_ListFirst(selected, devices) ==
    IF selected # Null /\ ~(\E d \in devices : d = selected)
    THEN <<devicesDetectedAction(devices), deselectDevice>>
    ELSE <<devicesDetectedAction(devices)>>

\* updateDeviceList after `await enumerate`: the actions it dispatches, in
\* order, given the selection read from getState() and the wrapped devices
\* (each device stands for its serialNumber).
updateDeviceList(selected, devices) ==
    IF selected # Null /\ ~(\E d \in devices : d = selected)
    THEN <<deselectDevice, devicesDetectedAction(devices)>>
    ELSE <<devicesDetectedAction(devices)>>

\* A slip in startWatchingDevices: the hotplug task is started before the
\* first updateDeviceList has dispatched.
InitialPass_SubscribeFirst(batch) ==
    <<Call("startHotplugEvents")>> \o DispatchAll(batch)

\* startWatchingDevices after `await enumerate` of its own updateDeviceList:
\* the dispatches of updateDeviceList, then startHotplugEvents (lines 177-194).
InitialPass(batch) == DispatchAll(batch) \o <<Call("startHotplugEvents")>>

\* startWatchingDevices up to its first await: updateDeviceList calls enumerate.
startWatchingDevices ==
    /\ hotplugTaskId + startsInFlight < MaxStarts
    /\ startsInFlight' = startsInFlight + 1

\* A slip in stopWatchingDevices: no try/catch around stopHotplugEvents.
StopCatch_Rethrows(threw) == threw

\* What the try/catch of stopWatchingDevices lets out when the library threw.
StopCatch(threw) == FALSE

\* const deviceLibContext = getDeviceLibContext(): the context the shared
\* library created when it was loaded, a truthy handle.
deviceLibContext == TRUE

\* The guard of stopWatchingDevices: if (deviceLibContext).
StopGuard == deviceLibContext

\* stopWatchingDevices: what it does and leaves behind, given whether the
\* library throws.
stopWatchingDevices(threw) ==
    IF StopGuard
    THEN [trace |-> <<Call("stopHotplugEvents")>>
                    \o (IF threw /\ ~StopCatch(threw)
                        THEN <<LogError("Error while stop watching devices")>>
                        ELSE <<>>),
          subscriptions |-> IF threw THEN subscriptions
                            ELSE stopHotplugEvents(subscriptions, hotplugTaskId),
          raised |-> StopCatch(threw)]
    ELSE [trace |-> <<>>, subscriptions |-> subscriptions, raised |-> FALSE]

\* Whether the library can throw, or not throw, on this call.
StopThrows(threw) ==
    threw => (StopGuard /\ StopCanThrow(subscriptions, hotplugTaskId))

\* ------------------------------------------------------------ the handshake

\* deviceSetupCallback: undefined, or the closure of the last prompt, which
\* holds that prompt's choices and the resolve/reject of its promise.
NoCallback == [defined |-> FALSE, choices |-> NoChoices]
NoAnswer == [kind |-> "none", value |-> JsUndefined]

\* A slip in deviceSetupInputReceived: the closure is invoked and kept.
AfterInvoke_Kept == deviceSetupCallback

\* deviceSetupCallback after the closure was invoked:
\* deviceSetupCallback = undefined (line 305).
AfterInvoke == NoCallback

\* A slip in the closure: a falsy choice resolves instead of rejecting.
InvokeCallback_NeverRejects(choices, choice) ==
    IF ~choices.defined THEN [kind |-> "resolved", value |-> NotNot(choice)]
    ELSE [kind |-> "resolved", value |-> choice]

\* The closure stored in deviceSetupCallback, applied to the user's choice:
\* how the promise of getDeviceSetupUserInput settles.
InvokeCallback(choices, choice) ==
    IF ~choices.defined THEN [kind |-> "resolved", value |-> NotNot(choice)]
    ELSE IF Truthy(choice) THEN [kind |-> "resolved", value |-> choice]
    ELSE [kind |-> "rejected", value |-> "Cancelled by user."]

\* ---------------------------------------------------------- the orchestrator

\* Where a selectAndSetupDevice call in progress stands:
\*   releasing  awaiting config.releaseCurrentDevice() (line 263)
\*   preparing  awaiting prepareDevice (line 273), the setup procedure running
\*   prompting  awaiting prepareDevice, the setup procedure awaiting the prompt
\*              whose closure deviceSetupCallback holds
\*   orphaned   awaiting prepareDevice, the setup procedure awaiting a prompt
\*              whose closure a later prompt replaced in deviceSetupCallback:
\*              nothing holds its resolve/reject any more, so the call never
\*              takes another step and its device is never used again
Live == {"releasing", "preparing", "prompting"}
Orphaned == [pc |-> "orphaned", device |-> Null]
SessionKinds == [pc : Live, device : Serials] \cup {Orphaned}

NoSessions == [k \in SessionKinds |-> 0]

RECURSIVE SetToSeq(_)
SetToSeq(S) ==
    IF S = {} THEN <<>>
    ELSE LET x == CHOOSE y \in S : TRUE IN <<x>> \o SetToSeq(S \ {x})

KindSeq == SetToSeq(SessionKinds)

RECURSIVE Count(_, _)
Count(s, n) == IF n = 0 THEN 0 ELSE s[KindSeq[n]] + Count(s, n - 1)

\* The number of calls in progress.
InProgress == Count(sessions, Len(KindSeq))

Kind(pc, device) == [pc |-> pc, device |-> device]
At(k, pc) == IF pc = "orphaned" THEN Orphaned ELSE [k EXCEPT !.pc = pc]
Enter(s, k) == [s EXCEPT ![k] = @ + 1]
Leave(s, k) == [s EXCEPT ![k] = @ - 1]
Move(s, k, pc) == Enter(Leave(s, k), At(k, pc))

\* The call whose prompt deviceSetupCallback holds, if any: its prompt is
\* replaced, and never settled, when another prompt is issued.
Orphan(s) ==
    IF \E k \in SessionKinds : k.pc = "prompting" /\ s[k] > 0
    THEN Move(s, CHOOSE k \in SessionKinds : k.pc = "prompting" /\ s[k] > 0,
              "orphaned")
    ELSE s

\* The call whose prompt is settled takes up the setup procedure again.
Resume(s) ==
    IF \E k \in SessionKinds : k.pc = "prompting" /\ s[k] > 0
    THEN Move(s, CHOOSE k \in SessionKinds : k.pc = "prompting" /\ s[k] > 0,
              "preparing")
    ELSE s

\* A slip at lines 269-270: the default is spread over the configuration,
\* { ...config.deviceSetup, allowCustomDevice: false }.
allowCustomDevice_DefaultLast(configured) == JsFalse

\* deviceSetupConfig.allowCustomDevice of
\* { ..., allowCustomDevice: false, ...config.deviceSetup } (lines 266-271).
allowCustomDevice(configured) ==
    IF configured = JsUndefined THEN JsFalse ELSE configured

Errors == {"flash failed", "Cancelled by user."}

\* A slip at line 254: the setup branch is taken whatever the configuration.
HasSetup_Always(config) == TRUE

\* if (config.deviceSetup) (line 254).
HasSetup(config) == config.deviceSetup

\* A slip at lines 251-260: the watcher is stopped before DEVICE_SELECTED.
SelectPrelude_StopFirst(device, stopped) ==
    stopped \o <<Dispatch(deviceSelectedAction(device))>>

\* Lines 251-260: DEVICE_SELECTED is dispatched, then stopWatchingDevices
\* runs (`stopped` is what it did).
SelectPrelude(device, stopped) ==
    <<Dispatch(deviceSelectedAction(device))>> \o stopped

\* A slip at lines 262-264: releaseCurrentDevice is called and not awaited.
FirstAwait_ReleaseNotAwaited(config) ==
    IF config.releaseCurrentDevice
    THEN <<Call("releaseCurrentDevice"), Call("prepareDevice")>>
    ELSE <<Call("prepareDevice")>>

\* Lines 262-276: the first call selectAndSetupDevice awaits after stopping
\* the watcher: releaseCurrentDevice when configured, else prepareDevice.
FirstAwait(config) ==
    IF config.releaseCurrentDevice
    THEN <<Call("releaseCurrentDevice")>>
    ELSE <<Call("prepareDevice")>>

\* ------------------------------------------------------------------ Init

Init ==
    /\ hotplugTaskId = NoTask
    /\ deviceSetupCallback = NoCallback
    /\ subscriptions = {}
    /\ startsInFlight = 0
    /\ callbacksInFlight = 0
    /\ selectedSerialNumber = Null
    /\ sessions = NoSessions
    /\ trace = <<>>
    /\ last = [op |-> "init"]

\* --------------------------------------------------------- watcher actions

\* Command startWatching: dispatch(startWatchingDevices()).
StartWatching ==
    /\ startWatchingDevices
    /\ trace' = <<Call("enumerate")>>
    /\ last' = [op |-> "startWatching"]
    /\ UNCHANGED <<hotplugTaskId, deviceSetupCallback,
                   subscriptions, callbacksInFlight, selectedSerialNumber, sessions>>

\* The enumerate of a startWatchingDevices call resolves with `devices`:
\* updateDeviceList dispatches, then the hotplug task is started (lines 177-194).
StartEnumerated(devices) ==
    /\ startsInFlight > 0
    /\ startsInFlight' = startsInFlight - 1
    /\ LET batch == updateDeviceList(selectedSerialNumber, devices) IN
        /\ trace' = InitialPass(batch)
        /\ selectedSerialNumber' = ReduceAll(selectedSerialNumber, batch)
    /\ hotplugTaskId' = NewTaskId
    /\ subscriptions' = subscriptions \cup {NewTaskId}
    /\ last' = [op |-> "startEnumerated", oldest |-> TRUE]
    /\ UNCHANGED <<deviceSetupCallback,
                   callbacksInFlight, sessions>>

\* The enumerate of a startWatchingDevices call rejects: the catch logs and
\* no hotplug task is started (lines 195-197).
StartEnumerateFailed ==
    /\ startsInFlight > 0
    /\ startsInFlight' = startsInFlight - 1
    /\ trace' = <<LogError("Error while probing devices")>>
    /\ last' = [op |-> "startEnumerateFailed"]
    /\ UNCHANGED <<hotplugTaskId, deviceSetupCallback,
                   subscriptions, callbacksInFlight,
                   selectedSerialNumber, sessions>>

\* The library reports a hotplug event on an active task: it calls
\* updateDeviceList, which calls enumerate (lines 170-176, 193).
HotplugEvent(id) ==
    /\ id \in subscriptions
    /\ callbacksInFlight < MaxCallbacks
    /\ callbacksInFlight' = callbacksInFlight + 1
    /\ trace' = <<Call("enumerate")>>
    /\ last' = [op |-> "hotplugEvent"]
    /\ UNCHANGED <<hotplugTaskId, deviceSetupCallback,
                   subscriptions, startsInFlight,
                   selectedSerialNumber, sessions>>

\* The enumerate of the order-th oldest hotplug callback still in flight
\* resolves with `devices`: updateDeviceList dispatches (lines 177-185).
CallbackEnumerated(order, devices) ==
    /\ order \in 1..callbacksInFlight
    /\ callbacksInFlight' = callbacksInFlight - 1
    /\ LET batch == updateDeviceList(selectedSerialNumber, devices) IN
        /\ trace' = DispatchAll(batch)
        /\ selectedSerialNumber' = ReduceAll(selectedSerialNumber, batch)
    /\ last' = [op |-> "callbackEnumerated", oldest |-> order = 1]
    /\ UNCHANGED <<hotplugTaskId, deviceSetupCallback,
                   subscriptions, startsInFlight, sessions>>

\* The enumerate of a hotplug callback rejects: updateDeviceList has no
\* try/catch of its own and the one of startWatchingDevices (lines 188-197)
\* was left when the hotplug task was started, so the promise the library
\* got from its callback rejects; nothing is logged, the task stays active.
CallbackEnumerateFailed ==
    /\ callbacksInFlight > 0
    /\ callbacksInFlight' = callbacksInFlight - 1
    /\ trace' = <<>>
    /\ last' = [op |-> "callbackEnumerateFailed", outcome |-> "rejected"]
    /\ UNCHANGED <<hotplugTaskId, deviceSetupCallback,
                   subscriptions, startsInFlight,
                   selectedSerialNumber, sessions>>

\* Command stopWatching: stopWatchingDevices() (lines 205-214).
StopWatching(threw) ==
    /\ StopThrows(threw)
    /\ LET r == stopWatchingDevices(threw) IN
        /\ subscriptions' = r.subscriptions
        /\ trace' = r.trace
        /\ last' = [op |-> "stopWatching", raised |-> r.raised]
    /\ UNCHANGED <<hotplugTaskId, deviceSetupCallback,
                   startsInFlight, callbacksInFlight,
                   selectedSerialNumber, sessions>>

\* ---------------------------------------------------- orchestrator actions

\* A slip in the catch of selectAndSetupDevice: the watcher is not started again.
RestartAfterError_Forgotten == startsInFlight' = startsInFlight

\* dispatch(startWatchingDevices()) in the catch of selectAndSetupDevice (line 287).
RestartAfterError == startWatchingDevices

\* A slip in deviceSetupInputReceived: no else branch, nothing is logged.
NoCallbackError_Missing == <<>>

\* The else branch of deviceSetupInputReceived (lines 306-310).
NoCallbackError ==
    <<LogError("Received device setup input, but no callback exists.")>>

\* Command selectAndSetup(device), up to its first await (lines 250-276),
\* with what getAppConfig() returns.
SelectAndSetup(serial, config, threw) ==
    /\ IF HasSetup(config)
       THEN InProgress < MaxSetups /\ StopThrows(threw)
       ELSE ~threw
    /\ selectedSerialNumber' =
           Reduce(selectedSerialNumber, deviceSelectedAction(Device(serial)))
    /\ IF HasSetup(config)
       THEN LET r == stopWatchingDevices(threw) IN
            /\ subscriptions' = r.subscriptions
            /\ trace' = SelectPrelude(Device(serial), r.trace) \o FirstAwait(config)
            /\ sessions' = Enter(sessions,
                   [pc |-> IF config.releaseCurrentDevice THEN "releasing"
                           ELSE "preparing",
                    device |-> serial])
       ELSE /\ subscriptions' = subscriptions
            /\ trace' = <<Dispatch(deviceSelectedAction(Device(serial)))>>
            /\ sessions' = sessions
    /\ last' = [op |-> "selectAndSetup", device |-> serial,
                outcome |-> IF HasSetup(config) THEN "pending" ELSE "resolved"]
    /\ UNCHANGED <<hotplugTaskId, deviceSetupCallback,
                   startsInFlight, callbacksInFlight>>

\* config.releaseCurrentDevice() resolves: prepareDevice is called (lines 263-276).
ReleaseDone(device) ==
    /\ sessions[Kind("releasing", device)] > 0
    /\ sessions' = Move(sessions, Kind("releasing", device), "preparing")
    /\ trace' = <<Call("prepareDevice")>>
    /\ last' = [op |-> "releaseDone", device |-> device, outcome |-> "pending"]
    /\ UNCHANGED <<hotplugTaskId, deviceSetupCallback,
                   subscriptions, startsInFlight, callbacksInFlight,
                   selectedSerialNumber>>

\* config.releaseCurrentDevice() rejects: the await at line 263 is outside the
\* try, so the promise selectAndSetupDevice returned rejects.
ReleaseThrows(device) ==
    /\ sessions[Kind("releasing", device)] > 0
    /\ sessions' = Leave(sessions, Kind("releasing", device))
    /\ trace' = <<>>
    /\ last' = [op |-> "releaseThrows", device |-> device, outcome |-> "rejected"]
    /\ UNCHANGED <<hotplugTaskId, deviceSetupCallback,
                   subscriptions, startsInFlight, callbacksInFlight,
                   selectedSerialNumber>>

\* The setup procedure calls promiseConfirm / promiseChoice
\* (getDeviceSetupUserInput, lines 227-240).
Prompt(device, choices) ==
    /\ sessions[Kind("preparing", device)] > 0
    /\ sessions' = Move(Orphan(sessions), Kind("preparing", device), "prompting")
    /\ deviceSetupCallback' = [defined |-> TRUE, choices |-> choices]
    /\ trace' = <<Dispatch(deviceSetupInputRequiredAction(choices))>>
    /\ last' = [op |-> "prompt", overwrote |-> deviceSetupCallback.defined]
    /\ UNCHANGED <<hotplugTaskId, subscriptions,
                   startsInFlight, callbacksInFlight,
                   selectedSerialNumber>>

\* Command provideSetupInput(input): deviceSetupInputReceived (lines 300-312).
ProvideSetupInput(input) ==
    /\ IF deviceSetupCallback.defined
       THEN /\ sessions' = Resume(sessions)
            /\ deviceSetupCallback' = AfterInvoke
            /\ trace' = <<Dispatch(deviceSetupInputReceivedAction(input))>>
       ELSE /\ UNCHANGED <<sessions, deviceSetupCallback>>
            /\ trace' = <<Dispatch(deviceSetupInputReceivedAction(input))>>
                        \o NoCallbackError
    /\ last' = [op |-> "provideSetupInput", input |-> input,
                pending |-> deviceSetupCallback.defined,
                choices |-> deviceSetupCallback.choices,
                answer |-> IF deviceSetupCallback.defined
                           THEN InvokeCallback(deviceSetupCallback.choices, input)
                           ELSE NoAnswer]
    /\ UNCHANGED <<hotplugTaskId, subscriptions,
                   startsInFlight, callbacksInFlight,
                   selectedSerialNumber>>

\* prepareDevice resolves with the prepared device (lines 273-278).
SetupSucceeds(device) ==
    /\ sessions[Kind("preparing", device)] > 0
    /\ startWatchingDevices
    /\ sessions' = Leave(sessions, Kind("preparing", device))
    /\ trace' = <<Call("enumerate"),
                  Dispatch(deviceSetupCompleteAction(PreparedDevice(Device(device))))>>
    /\ last' = [op |-> "setupSucceeds", device |-> device, outcome |-> "resolved"]
    /\ UNCHANGED <<hotplugTaskId, deviceSetupCallback,
                   subscriptions, callbacksInFlight, selectedSerialNumber>>

\* prepareDevice rejects with `error` (lines 279-288).  `configured` is
\* config.deviceSetup.allowCustomDevice, copied at lines 269-270 and first
\* read here, at line 281.
SetupThrows(device, error, configured) ==
    /\ sessions[Kind("preparing", device)] > 0
    /\ RestartAfterError
    /\ sessions' = Leave(sessions, Kind("preparing", device))
    /\ LET deselect == ~Truthy(allowCustomDevice(configured))
           batch == <<deviceSetupErrorAction(Device(device), error)>>
                    \o (IF deselect THEN <<deselectDevice>> ELSE <<>>)
       IN /\ trace' =
                <<Dispatch(batch[1])>>
                \o (IF deselect
                    THEN <<LogError("Error while setting up device"),
                           Dispatch(deselectDevice)>>
                    ELSE <<>>)
                \o <<Call("enumerate")>>
          /\ selectedSerialNumber' = ReduceAll(selectedSerialNumber, batch)
    /\ last' = [op |-> "setupThrows", device |-> device, outcome |-> "resolved",
                configured |-> configured]
    /\ UNCHANGED <<hotplugTaskId, deviceSetupCallback,
                   subscriptions, callbacksInFlight>>

\* ------------------------------------------------------------------ Next

\* What enumerate can resolve with: both devices attached, one, none.
DeviceLists == {{"A", "B"}, {"B"}, {}}

Next ==
    \/ StartWatching
    \/ \E devices \in DeviceLists : StartEnumerated(devices)
    \/ StartEnumerateFailed
    \/ \E id \in subscriptions : HotplugEvent(id)
    \/ \E order \in 1..MaxCallbacks, devices \in DeviceLists :
           CallbackEnumerated(order, devices)
    \/ CallbackEnumerateFailed
    \/ \E threw \in BOOLEAN : StopWatching(threw)
    \/ \E serial \in Serials, config \in Configs, threw \in BOOLEAN :
           SelectAndSetup(serial, config, threw)
    \/ \E device \in Serials : ReleaseDone(device)
    \/ \E device \in Serials : ReleaseThrows(device)
    \/ \E device \in Serials, choices \in ChoiceArgs : Prompt(device, choices)
    \/ \E input \in JsValues : ProvideSetupInput(input)
    \/ \E device \in Serials : SetupSucceeds(device)
    \/ \E device \in Serials, error \in Errors,
          configured \in AllowCustomDeviceValues :
           SetupThrows(device, error, configured)

Spec == Init /\ [][Next]_vars

\* What is taken to happen eventually: an awaited promise settles (the release
\* step, enumerate), the setup procedure returns or throws rather than
\* prompting for ever, and the user answers a pending prompt.  The commands
\* (startWatching, stopWatching, selectAndSetup) and the hotplug events come
\* from outside and need never happen.
Fairness ==
    /\ WF_vars(\E device \in Serials : ReleaseDone(device) \/ ReleaseThrows(device))
    /\ SF_vars(\E device \in Serials :
                  \/ SetupSucceeds(device)
                  \/ \E error \in Errors, configured \in AllowCustomDeviceValues :
                         SetupThrows(device, error, configured))
    /\ WF_vars(deviceSetupCallback.defined
                 /\ \E input \in JsValues : ProvideSetupInput(input))
    /\ WF_vars(\E devices \in DeviceLists : StartEnumerated(devices))
    /\ WF_vars(\E devices \in DeviceLists : CallbackEnumerated(1, devices))

FairSpec == Spec /\ Fairness

\* ----------------------------------------------------------------- claims

\* The steps in which updateDeviceList applies an enumeration result.
Applied == {"startEnumerated", "callbackEnumerated"}

\* The steps in which a selectAndSetupDevice call ends.
Terminal == {"setupSucceeds", "setupThrows"}
Ended == Terminal \cup {"releaseThrows"}

\* The watcher's own hotplug task is not active.
NotWatching == hotplugTaskId \notin subscriptions

RECURSIVE CountAt(_, _, _)
CountAt(s, pc, n) ==
    IF n = 0 THEN 0
    ELSE (IF KindSeq[n].pc = pc THEN s[KindSeq[n]] ELSE 0) + CountAt(s, pc, n - 1)

\* The number of calls whose prompt deviceSetupCallback holds.
Prompting == CountAt(sessions, "prompting", Len(KindSeq))

\* C1: whenever the watcher applies an enumeration result R while a device is
\* selected whose serial number is not in R, DEVICE_DESELECTED is dispatched
\* before the DEVICES_DETECTED that carries R, and the selection is cleared.
C1_DeselectBeforeList ==
    [][\A R \in DeviceLists :
        (/\ last'.op \in Applied
         /\ \E p \in Dispatched(trace', "DEVICES_DETECTED") :
                trace'[p].action.devices = R
         /\ selectedSerialNumber # Null
         /\ selectedSerialNumber \notin R)
        => /\ \E p \in Dispatched(trace', "DEVICES_DETECTED") :
                /\ trace'[p].action.devices = R
                /\ \E q \in Dispatched(trace', "DEVICE_DESELECTED") : q < p
           /\ selectedSerialNumber' = Null]_vars

\* C1 happens: a hotplug callback found the selected device gone.
C1_Witness ==
    /\ last.op = "callbackEnumerated"
    /\ Len(trace) = 2
    /\ trace[1].action.type = "DEVICE_DESELECTED"
    /\ trace[2].action.type = "DEVICES_DETECTED"
    /\ trace[2].action.devices = {"B"}
    /\ selectedSerialNumber = Null

\* C2: at most one hotplug subscription is active at any time.
C2_AtMostOneSubscription == Cardinality(subscriptions) <= 1

\* C3: every way a selectAndSetupDevice call that stopped the watcher ends
\* (setup succeeded, setup threw, release threw) starts the watcher again.
C3_RestartOnEveryExit ==
    [][last'.op \in Ended => startsInFlight' = startsInFlight + 1]_vars

\* C4: while a selectAndSetupDevice call is between stopping the watcher and
\* its terminal notification, no hotplug subscription is active and no
\* enumeration result is applied.
C4_StoppedWhilePaused ==
    InProgress > 0 => (subscriptions = {} /\ last.op \notin Applied)

\* C5 as claimed: right after the terminal notification the watcher holds an
\* active hotplug subscription.
C5_ActiveAfterTerminal == last.op \in Terminal => hotplugTaskId \in subscriptions

\* C5 as amended: the terminal step starts the watcher again, which leaves an
\* enumeration pass in flight and registers nothing yet; a hotplug task is
\* registered only when an enumeration pass of startWatchingDevices resolves.
C5_RestartInFlightAfterTerminal ==
    [][/\ last'.op \in Terminal =>
            /\ startsInFlight' = startsInFlight + 1
            /\ subscriptions' = subscriptions
            /\ hotplugTaskId' = hotplugTaskId
       /\ ~(subscriptions' \subseteq subscriptions) => last'.op = "startEnumerated"]_vars

\* C5 happens: setup failed, the restart is enumerating, nothing is registered.
C5_Witness ==
    /\ last.op = "setupThrows"
    /\ startsInFlight > 0
    /\ hotplugTaskId \notin subscriptions

\* C6: an error of the release step or of the setup procedure is reported by
\* DEVICE_SETUP_ERROR and never rejects the promise the caller holds.
C6_ErrorsNeverPropagate ==
    last.op \in {"releaseThrows", "setupThrows"} =>
        /\ last.outcome # "rejected"
        /\ Dispatched(trace, "DEVICE_SETUP_ERROR") # {}

\* C7 as claimed: provideSetupInput with no prompt pending logs an error and
\* dispatches nothing.
C7_SilentWithoutPrompt ==
    (last.op = "provideSetupInput" /\ ~last.pending) =>
        (Logged(trace) # {} /\ Actions(trace) = <<>>)

\* C7 as amended: provideSetupInput with no prompt pending dispatches
\* DEVICE_SETUP_INPUT_RECEIVED with the input, logs an error, and leaves the
\* selection, the watcher, the calls in progress and the prompt slot as they were.
C7_OnlyInputReceivedWithoutPrompt ==
    [][(last'.op = "provideSetupInput" /\ ~deviceSetupCallback.defined) =>
        /\ Actions(trace') = <<deviceSetupInputReceivedAction(last'.input)>>
        /\ Logged(trace') # {}
        /\ UNCHANGED <<hotplugTaskId, deviceSetupCallback, subscriptions,
                       startsInFlight, callbacksInFlight, selectedSerialNumber,
                       sessions>>]_vars

\* C7 happens: input arrived with no prompt pending.
C7_Witness ==
    /\ last.op = "provideSetupInput"
    /\ ~last.pending
    /\ Logged(trace) # {}

\* C8: a prompt without choices settles as confirmed on a truthy input and
\* as cancelled (rejected) on a falsy one.
C8_ConfirmationSettles ==
    (last.op = "provideSetupInput" /\ last.pending /\ ~last.choices.defined) =>
        last.answer = IF Truthy(last.input)
                      THEN [kind |-> "resolved", value |-> JsTrue]
                      ELSE [kind |-> "rejected", value |-> "Cancelled by user."]

\* C9: a prompt with choices settles with exactly the input when it is
\* truthy, and as cancelled (rejected) when it is falsy; the prompt slot is
\* emptied and the call that prompted goes on.
C9_ChoiceSettles ==
    [][(/\ last'.op = "provideSetupInput"
        /\ deviceSetupCallback.defined
        /\ deviceSetupCallback.choices.defined) =>
        /\ last'.answer = IF Truthy(last'.input)
                          THEN [kind |-> "resolved", value |-> last'.input]
                          ELSE [kind |-> "rejected", value |-> "Cancelled by user."]
        /\ deviceSetupCallback' = NoCallback
        /\ Prompting' = Prompting - 1]_vars

\* C9 happens: the user picked "DFU" from the choices.
C9_Witness ==
    /\ last.op = "provideSetupInput"
    /\ last.pending
    /\ last.choices.defined
    /\ last.answer = [kind |-> "resolved", value |-> "str:DFU"]

C11_EnumerationErrorsContained ==
    /\ last.op \in {"startEnumerateFailed", "callbackEnumerateFailed"} =>
           (Logged(trace) # {} /\ subscriptions = {})
    /\ last.op = "callbackEnumerateFailed" => last.outcome # "rejected"

\* C12: the enumeration results of hotplug callbacks are applied in the order
\* the callbacks fired: the one applied is always the oldest still outstanding.
C12_AppliedInFiringOrder == last.op = "callbackEnumerated" => last.oldest

\* C13: when prepareDevice throws, DEVICE_SETUP_ERROR is dispatched with the
\* device as it was selected and the error thrown, DEVICE_SETUP_COMPLETE is
\* not dispatched, and DEVICE_DESELECTED is dispatched (the selection
\* cleared) exactly when allowCustomDevice is false or absent; when it is
\* true the selection stays as it was.
C13_SetupErrorAndDeselect ==
    [][\A device \in Serials, error \in Errors,
          configured \in AllowCustomDeviceValues :
        SetupThrows(device, error, configured) =>
            /\ Cardinality(Dispatched(trace', "DEVICE_SETUP_ERROR")) = 1
            /\ \A p \in Dispatched(trace', "DEVICE_SETUP_ERROR") :
                   trace'[p].action = deviceSetupErrorAction(Device(device), error)
            /\ Dispatched(trace', "DEVICE_SETUP_COMPLETE") = {}
            /\ (Dispatched(trace', "DEVICE_DESELECTED") # {})
                   <=> (configured \in {JsFalse, JsUndefined})
            /\ selectedSerialNumber' =
                   IF configured \in {JsFalse, JsUndefined} THEN Null
                   ELSE selectedSerialNumber]_vars

\* C13 happens: setup failed with a custom device allowed, the selection stays.
C13_Witness ==
    /\ last.op = "setupThrows"
    /\ last.configured = JsTrue
    /\ selectedSerialNumber = last.device
    /\ Dispatched(trace, "DEVICE_SETUP_ERROR") # {}
    /\ Dispatched(trace, "DEVICE_DESELECTED") = {}

\* The steps of a selectAndSetupDevice call before its last one, and the
\* handshake's.
BeforeTerminal ==
    {"selectAndSetup", "releaseDone", "releaseThrows", "prompt", "provideSetupInput"}

\* C14: when prepareDevice returns, exactly one DEVICE_SETUP_COMPLETE is
\* dispatched and it carries the device prepareDevice returned, not the one
\* selected; the call dispatches no DEVICE_SETUP_ERROR and no
\* DEVICE_DESELECTED, in that step or in an earlier one.
C14_CompleteCarriesPreparedDevice ==
    /\ last.op = "setupSucceeds" =>
        /\ Cardinality(Dispatched(trace, "DEVICE_SETUP_COMPLETE")) = 1
        /\ \A p \in Dispatched(trace, "DEVICE_SETUP_COMPLETE") :
            /\ trace[p].action.device = PreparedDevice(Device(last.device))
            /\ trace[p].action.device.prepared
            /\ trace[p].action.device # Device(last.device)
        /\ Dispatched(trace, "DEVICE_SETUP_ERROR") = {}
        /\ Dispatched(trace, "DEVICE_DESELECTED") = {}
    /\ last.op \in BeforeTerminal =>
        /\ Dispatched(trace, "DEVICE_SETUP_COMPLETE") = {}
        /\ Dispatched(trace, "DEVICE_SETUP_ERROR") = {}
        /\ Dispatched(trace, "DEVICE_DESELECTED") = {}

\* C14 happens: setup of device A succeeded.
C14_Witness ==
    /\ last.op = "setupSucceeds"
    /\ last.device = "A"
    /\ \E p \in Dispatched(trace, "DEVICE_SETUP_COMPLETE") :
           trace[p].action.device.prepared

\* C15: at most one selectAndSetupDevice call is in progress at any time.
C15_AtMostOneSession == InProgress <= 1

\* C16: a prompt is issued only when the one before it has been settled: it
\* never replaces an unsettled closure in deviceSetupCallback, and no call is
\* left awaiting a prompt that nothing can settle any more.
C16_PromptNeverOverwrites ==
    /\ last.op = "prompt" => ~last.overwrote
    /\ sessions[Orphaned] = 0

\* C17: in a selectAndSetupDevice call with deviceSetup configured,
\* stopWatchingDevices runs first, then releaseCurrentDevice (when configured)
\* is called and awaited, and prepareDevice is called only after that: in the
\* first step when there is no release step, else in the step in which
\* releaseCurrentDevice resolved, and in no other step.
C17_StopReleaseSetupOrder ==
    [][/\ \A serial \in Serials, config \in Configs, threw \in BOOLEAN :
            (SelectAndSetup(serial, config, threw) /\ config.deviceSetup) =>
                /\ Called(trace', "stopHotplugEvents") # {}
                /\ IF config.releaseCurrentDevice
                   THEN /\ Called(trace', "prepareDevice") = {}
                        /\ Called(trace', "releaseCurrentDevice") # {}
                        /\ \A p \in Called(trace', "stopHotplugEvents"),
                              q \in Called(trace', "releaseCurrentDevice") : p < q
                        /\ sessions'[Kind("releasing", serial)] =
                               sessions[Kind("releasing", serial)] + 1
                   ELSE /\ Called(trace', "releaseCurrentDevice") = {}
                        /\ Called(trace', "prepareDevice") # {}
                        /\ \A p \in Called(trace', "stopHotplugEvents"),
                              q \in Called(trace', "prepareDevice") : p < q
       /\ Called(trace', "prepareDevice") # {} =>
            last'.op \in {"selectAndSetup", "releaseDone"}
       /\ last'.op = "releaseDone" =>
            /\ sessions[Kind("releasing", last'.device)] > 0
            /\ Called(trace', "stopHotplugEvents") = {}
            /\ Called(trace', "releaseCurrentDevice") = {}]_vars

\* C17 happens: the release step finished and prepareDevice was called.
C17_Witness ==
    /\ last.op = "releaseDone"
    /\ Called(trace, "prepareDevice") # {}

\* C18: a selectAndSetupDevice call dispatches DEVICE_SELECTED with its
\* device before anything else it does, the stop of the watcher included,
\* and no later step dispatches it.
C18_SelectedFirst ==
    /\ last.op = "selectAndSetup" =>
        /\ trace[1] = Dispatch(deviceSelectedAction(Device(last.device)))
        /\ Dispatched(trace, "DEVICE_SELECTED") = {1}
    /\ last.op # "selectAndSetup" => Dispatched(trace, "DEVICE_SELECTED") = {}

\* C18 happens: device selected, watcher stopped, setup procedure called.
C18_Witness ==
    /\ last.op = "selectAndSetup"
    /\ Len(trace) = 3
    /\ trace[2] = Call("stopHotplugEvents")
    /\ trace[3] = Call("prepareDevice")

\* C19: startWatchingDevices calls enumerate once, dispatches the list it
\* gets before it starts the hotplug task, and starts no task when that
\* enumerate fails.
C19_EnumerateThenSubscribe ==
    [][/\ last'.op = "startWatching" =>
            /\ trace' = <<Call("enumerate")>>
            /\ startsInFlight' = startsInFlight + 1
            /\ subscriptions' = subscriptions
       /\ last'.op = "startEnumerated" =>
            /\ Cardinality(Dispatched(trace', "DEVICES_DETECTED")) = 1
            /\ Cardinality(Called(trace', "startHotplugEvents")) = 1
            /\ Called(trace', "enumerate") = {}
            /\ \A p \in Dispatched(trace', "DEVICES_DETECTED"),
                  q \in Called(trace', "startHotplugEvents") : p < q
            /\ startsInFlight' = startsInFlight - 1
            /\ Cardinality(subscriptions') = Cardinality(subscriptions) + 1
       /\ last'.op = "startEnumerateFailed" =>
            /\ Called(trace', "startHotplugEvents") = {}
            /\ Called(trace', "enumerate") = {}
            /\ startsInFlight' = startsInFlight - 1
            /\ subscriptions' = subscriptions
            /\ hotplugTaskId' = hotplugTaskId]_vars

\* C19 happens: the first pass found the selected device gone, dispatched
\* the deselection and the list, then started the hotplug task.
C19_Witness ==
    /\ last.op = "startEnumerated"
    /\ Len(trace) = 3
    /\ trace[2].action.type = "DEVICES_DETECTED"
    /\ trace[3] = Call("startHotplugEvents")
    /\ hotplugTaskId \in subscriptions

\* C20: without config.deviceSetup, selectAndSetupDevice dispatches
\* DEVICE_SELECTED and does nothing else: no call to the device library, to
\* releaseCurrentDevice or to prepareDevice, no other dispatch, and the
\* watcher, the calls in progress and the prompt slot stay as they were.
C20_SelectOnlyWithoutSetup ==
    [][\A serial \in Serials, config \in Configs, threw \in BOOLEAN :
        (SelectAndSetup(serial, config, threw) /\ ~config.deviceSetup) =>
            /\ trace' = <<Dispatch(deviceSelectedAction(Device(serial)))>>
            /\ selectedSerialNumber' = serial
            /\ UNCHANGED <<hotplugTaskId, deviceSetupCallback, subscriptions,
                           startsInFlight, callbacksInFlight, sessions>>]_vars

\* C20 happens: a device was selected with no setup configured while the
\* watcher was active.
C20_Witness ==
    /\ last.op = "selectAndSetup"
    /\ last.outcome = "resolved"
    /\ Len(trace) = 1
    /\ hotplugTaskId \in subscriptions

\* C21: an enumeration result applied while no device is selected, or while
\* the selected serial number is in the result, dispatches one
\* DEVICES_DETECTED and no DEVICE_DESELECTED, and the selection stays.
C21_ListOnlyWhenSelectionPresent ==
    [][\A R \in DeviceLists :
        (/\ last'.op \in Applied
         /\ \E p \in Dispatched(trace', "DEVICES_DETECTED") :
                trace'[p].action.devices = R
         /\ (selectedSerialNumber = Null \/ selectedSerialNumber \in R))
        => /\ Cardinality(Dispatched(trace', "DEVICES_DETECTED")) = 1
           /\ Dispatched(trace', "DEVICE_DESELECTED") = {}
           /\ Actions(trace') = <<devicesDetectedAction(R)>>
           /\ selectedSerialNumber' = selectedSerialNumber]_vars

\* C21 happens: a hotplug callback found the selected device B still there.
C21_Witness ==
    /\ last.op = "callbackEnumerated"
    /\ selectedSerialNumber = "B"
    /\ Actions(trace) = <<devicesDetectedAction({"B"})>>

\* C22: a prompt is settled only by provideSetupInput and once: a
\* provideSetupInput that finds a closure in deviceSetupCallback settles its
\* prompt and empties the slot, one that finds none settles nothing, so of
\* two provideSetupInput in a row the second settles nothing; no other step
\* takes a call out of its prompt or empties the slot.
C22_SettledOnceByInput ==
    [][/\ Prompting <= 1
       /\ (last'.op = "provideSetupInput" /\ deviceSetupCallback.defined) =>
            /\ last'.answer.kind \in {"resolved", "rejected"}
            /\ deviceSetupCallback' = NoCallback
            /\ Prompting' = Prompting - 1
       /\ (last'.op = "provideSetupInput" /\ ~deviceSetupCallback.defined) =>
            /\ last'.answer = NoAnswer
            /\ sessions' = sessions
       /\ (last.op = "provideSetupInput" /\ last'.op = "provideSetupInput") =>
            last'.answer = NoAnswer
       /\ (Prompting' < Prompting \/ (deviceSetupCallback.defined
                                      /\ ~deviceSetupCallback'.defined)) =>
            last'.op = "provideSetupInput"]_vars

\* C22 happens: a confirmation was answered, its prompt settled, the slot emptied.
C22_Witness ==
    /\ last.op = "provideSetupInput"
    /\ last.pending
    /\ ~last.choices.defined
    /\ last.answer.kind = "resolved"
    /\ ~deviceSetupCallback.defined
    /\ Prompting = 0

\* C23: after stopWatching the watcher stays stopped until the next
\* startWatching: the step right after a stopWatching is never the first
\* pass of an earlier startWatchingDevices applying its list and starting
\* its hotplug task.
C23_StoppedStaysStopped ==
    [][last.op = "stopWatching" => last'.op # "startEnumerated"]_vars

\* The model's bound on starts is used up: no restart can be modelled.
StartsExhausted == hotplugTaskId + startsInFlight >= MaxStarts

\* C24: when what is awaited settles and prompts are answered, a
\* selectAndSetupDevice call that stopped the watcher is followed by a
\* terminal notification (DEVICE_SETUP_COMPLETE or DEVICE_SETUP_ERROR).
C24_SetupReachesTerminal ==
    (last.op = "selectAndSetup" /\ last.outcome = "pending")
        ~> (last.op \in Terminal \/ StartsExhausted)

====
